---- MODULE Spec2Model ----
(***************************************************************************)
(* Model of audarma's view translation coordinator                         *)
(* (ViewTranslationProvider), of the view fingerprint it computes, and of  *)
(* the batch translation command (cli/translate.ts), over the storage and  *)
(* translation-provider contracts.                                         *)
(*                                                                         *)
(* One view is modelled.  A content item is identified by its key          *)
(* "contentType:contentId"; the view's items are a function from keys to   *)
(* source texts.  Every asynchronous call (getCachedTranslations,          *)
(* translateBatch, saveTranslations) suspends the calling cycle; the code  *)
(* that runs when the call returns or throws is one action.                *)
(***************************************************************************)
EXTENDS Integers, Sequences, FiniteSets, TLC

VARIABLES
    locale,         \* value of config.i18n.getCurrentLocale() at the last render
    items,          \* the items prop of the last render: key -> source text
    cache,          \* React state `cache`: key -> translated text
    isTranslating,  \* React state `isTranslating`
    cycles,         \* the translateView invocations that are suspended on an await
    started,        \* number of translateView cycles started so far
    renders,        \* number of renders with a changed locale or items prop so far
    store,          \* the content_translations table: a set of rows
    metadata,       \* localStorage translation_metadata_<view>_<locale>
    ev,             \* history: what the last step did
    fp,             \* the fingerprint computation: two views and their contentStrings
    source,         \* the content tables the batch command scans: key -> text
    job,            \* the batch command: the runTranslation call in progress
    db              \* the Supabase example adapter: its table, the clock, the last call

vars == <<locale, items, cache, isTranslating, cycles, started, renders, store,
          metadata, ev, fp, source, job, db>>

\* The variables of the coordinator, the table left out.
viewVars == <<locale, items, cache, isTranslating, cycles, started, renders,
              metadata, ev>>

----------------------------------------------------------------------------
(* Bounds of the model *)

MaxCycles == 3
MaxRenders == 3
MaxGets == 2

----------------------------------------------------------------------------
(* Values *)

DefaultLocale == "en"
TargetLocales == {"kk", "de"}
Locales == {DefaultLocale} \cup TargetLocales

Keys == {"k1", "k2"}
KeyOrder == <<"k1", "k2">>
Texts == {"a", "b"}

\* The views the caller passes: the full view, the same with the text of one
\* item edited, and the empty view.
FullView == [k \in Keys |-> "a"]
ItemSets == {FullView, [FullView EXCEPT !["k2"] = "b"], [k \in {} |-> "a"]}

\* A string shown to the user is modelled by where it comes from: the
\* translation of source text t into locale l, the source text itself, the
\* empty string, or JavaScript's undefined.
Tr(t, l) == [loc |-> l, src |-> t]
Source(t) == [loc |-> "source", src |-> t]
EmptyString == [loc |-> "", src |-> ""]
Undefined == [loc |-> "undefined", src |-> "undefined"]

\* JavaScript truthiness of a string-or-undefined value.
Truthy(v) == v \notin {EmptyString, Undefined}

EmptyCache == [k \in {} |-> Undefined]

\* cache[key] of a JavaScript object: undefined when the key is absent.
Lookup(c, k) == IF k \in DOMAIN c THEN c[k] ELSE Undefined

\* The items array, in the caller's order.
ItemSeq(its) == SelectSeq(KeyOrder, LAMBDA k : k \in DOMAIN its)

\* items.length
ItemCount(its) == Cardinality(DOMAIN its)

\* The view's contentHash: the digest of the sorted "type:id:text" strings.
\* The digest is taken to be collision free, so it is modelled by the set of
\* (key, text) pairs it is computed from.
ContentHash(its) == {<<k, its[k]>> : k \in DOMAIN its}

\* crypto.SHA256(text).toString(): the full 64 hex digit digest of the text.
SourceHash(t) == [of |-> t, len |-> 64]

NoMeta == [contentHash |-> {<<"none", "none">>}, itemCount |-> -1]

NoEvent == [kind |-> "none", issued |-> "none", loc |-> "none", hits |-> {}, tried |-> {}]

CycleIds == 1..MaxCycles

NoCalls == [getCached |-> 0, translateBatch |-> 0, save |-> 0]

----------------------------------------------------------------------------
(* The storage contract: the content_translations table, primary key        *)
(* (content_type, content_id, locale).                                      *)

Row(k, l, orig, tr, h) ==
    [key |-> k, locale |-> l, original_text |-> orig, translated_text |-> tr,
     source_hash |-> h]

\* getCachedTranslations(items, targetLocale): the rows of the given items
\* at the target locale.
GetCachedTranslations(st, its, l) ==
    {r \in st : r.key \in DOMAIN its /\ r.locale = l}

\* saveTranslations(rows): upsert on the primary key.
SaveTranslations(st, rows) ==
    {r \in st : ~\E n \in rows : n.key = r.key /\ n.locale = r.locale} \cup rows

----------------------------------------------------------------------------
(* The rendering surface *)

\* getTranslation without its default-locale test.
GetTranslation_NoDefaultTest(k, fallback) ==
    IF Truthy(Lookup(cache, k)) THEN Lookup(cache, k) ELSE fallback

\* getTranslation(contentType, contentId, fallback)
GetTranslation(k, fallback) ==
    IF locale = DefaultLocale
    THEN fallback
    ELSE IF Truthy(Lookup(cache, k)) THEN Lookup(cache, k) ELSE fallback

\* isItemTranslating(contentType, contentId)
IsItemTranslating(k) ==
    IF locale = DefaultLocale
    THEN FALSE
    ELSE isTranslating /\ ~Truthy(Lookup(cache, k))

----------------------------------------------------------------------------
(* translateView *)

\* metadata.contentHash === contentHash && metadata.itemCount === items.length
MetadataMatches(md, its) ==
    /\ md # NoMeta
    /\ md.contentHash = ContentHash(its)
    /\ md.itemCount = ItemCount(its)

\* Where translateView suspends first: on loadFromDatabaseCache's read when
\* the stored metadata matches, on its own read otherwise.
StartPc(l, its) ==
    IF MetadataMatches(metadata[l], its) THEN "getCachedFast" ELSE "getCachedSlow"

NewCycle(l, its) ==
    [id |-> started + 1, locale |-> l, items |-> its, pc |-> StartPc(l, its),
     found |-> {}, newCache |-> EmptyCache, uncached |-> <<>>, translated |-> <<>>,
     n |-> [NoCalls EXCEPT !.getCached = 1]]

\* The last step was cycle c (started for locale l) issuing the adapter call op.
Issued(op, l) == [NoEvent EXCEPT !.issued = op, !.loc = l]

Event(kind, c) ==
    [kind |-> kind, issued |-> "none", loc |-> c.locale, hits |-> c.found,
     tried |-> {c.uncached[i] : i \in 1..Len(c.uncached)}]

\* The metadata object computed from the items of the latest render, not
\* from the items the effect's closure holds.
MetadataOf_ViewItems(its) ==
    [contentHash |-> ContentHash(items), itemCount |-> ItemCount(items)]

\* The metadata object translateView writes to localStorage.
MetadataOf(its) == [contentHash |-> ContentHash(its), itemCount |-> ItemCount(its)]

\* The effect with its short-circuit taken for an empty view only.
RunEffect_NoDefaultTest(l, its) ==
    IF ItemCount(its) = 0
    THEN /\ cache' = EmptyCache
         /\ isTranslating' = FALSE
         /\ ev' = NoEvent
         /\ UNCHANGED <<cycles, started>>
    ELSE /\ started < MaxCycles
         /\ LET c == NewCycle(l, its) IN
            /\ cycles' = cycles \cup {c}
            /\ started' = started + 1
            /\ isTranslating' = IF c.pc = "getCachedSlow" THEN TRUE ELSE isTranslating
            /\ ev' = Issued("getCached", l)
            /\ UNCHANGED cache

\* The body of the effect, run after a render whose dependencies
\* [viewName, locale, items.length] changed: l and its are that render's
\* locale and items.
RunEffect(l, its) ==
    IF l = DefaultLocale \/ ItemCount(its) = 0
    THEN /\ cache' = EmptyCache
         /\ isTranslating' = FALSE
         /\ ev' = NoEvent
         /\ UNCHANGED <<cycles, started>>
    ELSE /\ started < MaxCycles
         /\ LET c == NewCycle(l, its) IN
            /\ cycles' = cycles \cup {c}
            /\ started' = started + 1
            /\ isTranslating' = IF c.pc = "getCachedSlow" THEN TRUE ELSE isTranslating
            /\ ev' = Issued("getCached", l)
            /\ UNCHANGED cache

\* A render in which getCurrentLocale() returns another locale than in the
\* render before it, and the effect that follows it.
LocaleChange(l) ==
    /\ l \in Locales \ {locale}
    /\ renders < MaxRenders
    /\ renders' = renders + 1
    /\ locale' = l
    /\ RunEffect(l, items)
    /\ UNCHANGED <<items, store, metadata, fp, source, job, db>>

\* A render with another items prop.  The effect runs only when items.length
\* changed.
ItemsChange(its) ==
    /\ its \in ItemSets \ {items}
    /\ renders < MaxRenders
    /\ renders' = renders + 1
    /\ items' = its
    /\ IF ItemCount(its) # ItemCount(items)
       THEN RunEffect(locale, its)
       ELSE /\ ev' = NoEvent
            /\ UNCHANGED <<cache, isTranslating, cycles, started>>
    /\ UNCHANGED <<locale, store, metadata, fp, source, job, db>>

\* loadFromDatabaseCache: getCachedTranslations returned.
LoadReturns(id) ==
    \E c \in cycles :
        /\ c.id = id /\ c.pc = "getCachedFast"
        /\ LET res == GetCachedTranslations(store, c.items, c.locale)
               found == {r.key : r \in res}
               newCache == [k \in found |->
                              (CHOOSE r \in res : r.key = k).translated_text]
           IN /\ cache' = newCache
              /\ ev' = Event("loaded", [c EXCEPT !.found = found])
        /\ cycles' = cycles \ {c}
        /\ UNCHANGED <<locale, items, isTranslating, started, renders, store, metadata>>
        /\ UNCHANGED <<fp, source, job, db>>

\* loadFromDatabaseCache: getCachedTranslations threw; the catch block calls
\* translateView() again, which reads the metadata again.
LoadFails(id) ==
    \E c \in cycles :
        /\ c.id = id /\ c.pc = "getCachedFast"
        /\ c.n.getCached < MaxGets
        /\ LET pc == StartPc(c.locale, c.items) IN
           /\ cycles' = (cycles \ {c}) \cup {[c EXCEPT !.pc = pc, !.n.getCached = @ + 1]}
           /\ isTranslating' = IF pc = "getCachedSlow" THEN TRUE ELSE isTranslating
        /\ ev' = Issued("getCached", c.locale)
        /\ UNCHANGED <<locale, items, cache, started, renders, store, metadata, fp, source, job, db>>

\* setCache(newCache), the metadata write and the finally block.
Commit(c, newCache) ==
    /\ cache' = newCache
    /\ metadata' = [metadata EXCEPT ![c.locale] = MetadataOf(c.items)]
    /\ isTranslating' = FALSE
    /\ cycles' = cycles \ {c}

\* The catch block of translateView without the finally block.
Abort_NoFinally(c) ==
    /\ cycles' = cycles \ {c}
    /\ ev' = Event("failed", c)
    /\ UNCHANGED <<locale, items, cache, isTranslating, started, renders, store, metadata>>
    /\ UNCHANGED <<fp, source, job, db>>

\* The finally block of translateView with no catch block before it: the
\* rejection leaves translateView unhandled.
Abort_NoCatch(c) ==
    /\ isTranslating' = FALSE
    /\ cycles' = cycles \ {c}
    /\ ev' = Event("unhandled", c)
    /\ UNCHANGED <<locale, items, cache, started, renders, store, metadata, fp, source, job, db>>

\* The catch and finally blocks of translateView.
Abort(c) ==
    /\ isTranslating' = FALSE
    /\ cycles' = cycles \ {c}
    /\ ev' = Event("failed", c)
    /\ UNCHANGED <<locale, items, cache, started, renders, store, metadata, fp, source, job, db>>

\* translateView: getCachedTranslations returned.  The items are split on
\* the truthiness of the cached translated text; translateBatch is called for
\* the uncached ones, and with none the cycle commits.
ReadReturns(id) ==
    \E c \in cycles :
        /\ c.id = id /\ c.pc = "getCachedSlow"
        /\ LET res == GetCachedTranslations(store, c.items, c.locale)
               found == {r.key : r \in res}
               cachedOf(k) == IF k \in found
                              THEN (CHOOSE r \in res : r.key = k).translated_text
                              ELSE Undefined
               hit == {k \in DOMAIN c.items : Truthy(cachedOf(k))}
               newCache == [k \in hit |-> cachedOf(k)]
               uncached == SelectSeq(ItemSeq(c.items), LAMBDA k : k \notin hit)
               d == [c EXCEPT !.found = found, !.newCache = newCache,
                              !.uncached = uncached]
           IN IF Len(uncached) > 0
              THEN /\ cycles' = (cycles \ {c}) \cup
                                {[d EXCEPT !.pc = "translateBatch", !.n.translateBatch = @ + 1]}
                   /\ ev' = Issued("translateBatch", c.locale)
                   /\ UNCHANGED <<cache, isTranslating, metadata>>
              ELSE /\ Commit(c, newCache)
                   /\ ev' = Event("commit", d)
        /\ UNCHANGED <<locale, items, started, renders, store, fp, source, job, db>>

\* translateView: getCachedTranslations threw.
ReadFails(id) ==
    \E c \in cycles :
        /\ c.id = id /\ c.pc = "getCachedSlow"
        /\ Abort(c)

\* What the provider can answer to translateBatch(uncached, defaultLocale,
\* locale): the translations in order, the same with an empty string for the
\* first item, one string too few, or one string too many.
ResponseKinds == {"ok", "emptyFirst", "short", "long"}

ProviderResponse(c, kind) ==
    LET n == Len(c.uncached)
        good == [i \in 1..n |-> Tr(c.items[c.uncached[i]], c.locale)]
    IN CASE kind = "ok" -> good
         [] kind = "emptyFirst" -> [good EXCEPT ![1] = EmptyString]
         [] kind = "short" -> SubSeq(good, 1, n - 1)
         [] kind = "long" -> Append(good, good[1])

\* translatedTexts[idx]
At(resp, i) == IF i \in 1..Len(resp) THEN resp[i] ELSE Undefined

\* translateView: translateBatch returned; the rows are built and
\* saveTranslations is called.
TranslateReturns(id, kind) ==
    \E c \in cycles :
        /\ c.id = id /\ c.pc = "translateBatch"
        /\ cycles' = (cycles \ {c}) \cup
                     {[c EXCEPT !.translated = ProviderResponse(c, kind), !.pc = "save", !.n.save = @ + 1]}
        /\ ev' = Issued("save", c.locale)
        /\ UNCHANGED <<locale, items, cache, isTranslating, started, renders, store, metadata>>
        /\ UNCHANGED <<fp, source, job, db>>

\* translateView: translateBatch threw.
TranslateFails(id) ==
    \E c \in cycles :
        /\ c.id = id /\ c.pc = "translateBatch"
        /\ Abort(c)

\* translationsToSave built with the locale of the latest render, not the
\* one the effect's closure holds.
TranslationsToSave_ActiveLocale(c) ==
    {Row(c.uncached[i], locale, c.items[c.uncached[i]], At(c.translated, i),
         SourceHash(c.items[c.uncached[i]])) : i \in 1..Len(c.uncached)}

\* const translationsToSave = uncachedItems.map(...)
TranslationsToSave(c) ==
    {Row(c.uncached[i], c.locale, c.items[c.uncached[i]], At(c.translated, i),
         SourceHash(c.items[c.uncached[i]])) : i \in 1..Len(c.uncached)}

\* translateView: saveTranslations returned; the new translations are added
\* to newCache and the cycle commits.
SaveReturns(id) ==
    \E c \in cycles :
        /\ c.id = id /\ c.pc = "save"
        /\ store' = SaveTranslations(store, TranslationsToSave(c))
        /\ LET tried == {c.uncached[i] : i \in 1..Len(c.uncached)}
               idx(k) == CHOOSE i \in 1..Len(c.uncached) : c.uncached[i] = k
               newCache == [k \in DOMAIN c.newCache \cup tried |->
                              IF k \in tried THEN At(c.translated, idx(k))
                              ELSE c.newCache[k]]
           IN Commit(c, newCache)
        /\ ev' = Event("commit", c)
        /\ UNCHANGED <<locale, items, started, renders, fp, source, job, db>>

\* translateView: saveTranslations threw.
SaveFails(id) ==
    \E c \in cycles :
        /\ c.id = id /\ c.pc = "save"
        /\ Abort(c)

----------------------------------------------------------------------------
(* The view fingerprint, on strings.  A string is the sequence of its UTF-16 *)
(* code units.                                                               *)

Colon == 58
Pipe == 124
LetterA == 97

\* The most items a fingerprinted view has.
MaxItems == 2

\* `${item.contentType}:${item.contentId}:${item.text}`
ItemString(item) ==
    item.contentType \o <<Colon>> \o item.contentId \o <<Colon>> \o item.text

\* The order Array.prototype.sort() uses without a comparator: strings are
\* compared code unit by code unit, a proper prefix coming first.
RECURSIVE StringLeq(_, _)
StringLeq(a, b) ==
    IF a = <<>> THEN TRUE
    ELSE IF b = <<>> THEN FALSE
    ELSE IF Head(a) # Head(b) THEN Head(a) < Head(b)
    ELSE StringLeq(Tail(a), Tail(b))

\* x put at its place in the sorted array of strings.
RECURSIVE Insert(_, _)
Insert(x, sorted) ==
    IF sorted = <<>> THEN <<x>>
    ELSE IF StringLeq(x, Head(sorted)) THEN <<x>> \o sorted
    ELSE <<Head(sorted)>> \o Insert(x, Tail(sorted))

\* strings.sort()
RECURSIVE SortStrings(_)
SortStrings(strings) ==
    IF strings = <<>> THEN <<>>
    ELSE Insert(Head(strings), SortStrings(Tail(strings)))

\* strings.join('|')
RECURSIVE Join(_)
Join(strings) ==
    IF strings = <<>> THEN <<>>
    ELSE IF Len(strings) = 1 THEN strings[1]
    ELSE strings[1] \o <<Pipe>> \o Join(Tail(strings))

\* contentString with the sort left out.
ContentString_NoSort(view) ==
    Join([i \in 1..Len(view) |-> ItemString(view[i])])

\* contentString: items.map(...).sort().join('|')
ContentString(view) ==
    Join(SortStrings([i \in 1..Len(view) |-> ItemString(view[i])]))

\* crypto.SHA256(contentString).toString().substring(0, 16): the digest is
\* taken to be collision free, so it is modelled by the string it is taken of.
Fingerprint(view) == [sha256 |-> ContentString(view), len |-> 16]

\* The field values of the fingerprinted views: plain ones, and ones that
\* hold the characters ':' and '|'.
TypeStrings == {<<>>, <<LetterA>>}
IdStrings == {<<Pipe>>, <<Pipe, Colon, Pipe>>}
TextStrings == {<<>>, <<LetterA>>, <<Pipe, Colon, Pipe>>, <<Pipe, Pipe, Colon>>}

FpItems ==
    [contentType : TypeStrings, contentId : IdStrings, text : TextStrings]

\* The arrays of at most MaxItems items.
FpViews == UNION {[1..n -> FpItems] : n \in 0..MaxItems}

\* The orders in which an array of n items can be passed.
Orders(n) == {p \in [1..n -> 1..n] : \A i, j \in 1..n : p[i] = p[j] => i = j}

\* No fingerprint is being computed.
NoFingerprint == [op |-> "none", view |-> <<>>, other |-> <<>>]

\* The fingerprints of view and of the view it was changed into.
Fingerprinted(op, view, other) ==
    [op |-> op, view |-> view, other |-> other,
     string |-> ContentString(view), otherString |-> ContentString(other),
     hash |-> Fingerprint(view), otherHash |-> Fingerprint(other)]

\* The same items passed in another order.
Reorder(p) ==
    /\ fp.op = "view"
    /\ p \in Orders(Len(fp.view))
    /\ \E i \in 1..Len(fp.view) : p[i] # i
    /\ fp' = Fingerprinted("reorder", fp.view, [i \in 1..Len(fp.view) |-> fp.view[p[i]]])
    /\ UNCHANGED <<viewVars, store, source, job, db>>

\* The text of item i changed.
ChangeText(i, text) ==
    /\ fp.op = "view"
    /\ i \in 1..Len(fp.view)
    /\ text # fp.view[i].text
    /\ fp' = Fingerprinted("text", fp.view, [fp.view EXCEPT ![i].text = text])
    /\ UNCHANGED <<viewVars, store, source, job, db>>

\* An item added to the view.
AddItem(item) ==
    /\ fp.op = "view"
    /\ Len(fp.view) < MaxItems
    /\ fp' = Fingerprinted("add", fp.view, Append(fp.view, item))
    /\ UNCHANGED <<viewVars, store, source, job, db>>

\* Item i removed from the view.
RemoveItem(i) ==
    /\ fp.op = "view"
    /\ i \in 1..Len(fp.view)
    /\ fp' = Fingerprinted("remove", fp.view,
                           SubSeq(fp.view, 1, i - 1) \o SubSeq(fp.view, i + 1, Len(fp.view)))
    /\ UNCHANGED <<viewVars, store, source, job, db>>

----------------------------------------------------------------------------
(* The batch translation command: runTranslation                            *)

\* The most runTranslation calls made one after the other.
MaxRuns == 2

\* config.locales, in the configured order
ConfigLocales == <<"kk", "de">>

\* config.batchSize
BatchSize == 1

\* config.excludeTypes
ExcludeTypes == {"message_text"}

\* The item of the content tables whose content type config.excludeTypes
\* names.
ExcludedKeys == {"m1"}

\* item.contentType
ContentTypeOf(k) == IF k \in ExcludedKeys THEN "message_text" ELSE "product_title"

\* The order in which getAllTranslatableContent returns the items.
SourceOrder == KeyOrder \o <<"m1">>

\* The content tables before the first run.
RunSource == [k \in Keys \cup ExcludedKeys |-> "a"]

\* The command line options: --dry-run, --locale and --force.
RunOptions == [dryRun : BOOLEAN, locale : {"none"} \cup TargetLocales, force : BOOLEAN]

\* sha256 of the text as hex, cut to its first 16 digits.
CliSourceHash(t) == [of |-> t, len |-> 16]

\* The elements of an array.
Elements(seq) == {seq[i] : i \in 1..Len(seq)}

\* No run has completed before this one.
NoPrev == [ok |-> FALSE, locales |-> {}, content |-> <<>>]

\* No runTranslation call has been made.
NoJob ==
    [pc |-> "idle", last |-> "none", runs |-> 0,
     options |-> [dryRun |-> FALSE, locale |-> "none", force |-> FALSE],
     discovery |-> TRUE, prev |-> NoPrev, batchSize |-> BatchSize,
     content |-> <<>>, gaps |-> <<>>, locales |-> <<>>, li |-> 0, i |-> 0,
     translations |-> <<>>, totalTranslated |-> 0, n |-> NoCalls,
     report |-> <<>>, saved |-> {}, failures |-> 0]

\* discoverContent without the excludeTypes test.
DiscoverContent_NoExclude(src) ==
    LET found == SelectSeq(SourceOrder, LAMBDA k : k \in DOMAIN src)
    IN [i \in 1..Len(found) |->
           [key |-> found[i], text |-> src[found[i]],
            sourceHash |-> CliSourceHash(src[found[i]])]]

\* discoverContent: the items the adapter found, without those of an
\* excluded content type, each with its sourceHash.
DiscoverContent(src) ==
    LET found == SelectSeq(SourceOrder, LAMBDA k : k \in DOMAIN src)
        kept == SelectSeq(found, LAMBDA k : ContentTypeOf(k) \notin ExcludeTypes)
    IN [i \in 1..Len(kept) |->
           [key |-> kept[i], text |-> src[kept[i]],
            sourceHash |-> CliSourceHash(src[kept[i]])]]

\* content.map(c => ({contentType, contentId, text})): the items passed to
\* getCachedTranslations.
TranslationItems(content) ==
    [k \in {c.key : c \in Elements(content)} |->
        (CHOOSE c \in Elements(content) : c.key = k).text]

\* The target locales when the --locale option is not looked at.
TargetLocalesOf_Configured(options) == ConfigLocales

\* targetLocale ? [targetLocale] : locales
TargetLocalesOf(options) ==
    IF options.locale # "none" THEN <<options.locale>> ELSE ConfigLocales

\* The gap loop of findTranslationGaps: cachedTranslations is what
\* getCachedTranslations returned for targetLocales[0].
FindTranslationGaps(content, cachedTranslations, targetLocales) ==
    LET cachedOf(item) == {c \in cachedTranslations : c.key = item.key}
        missing(item, l) ==
            \/ cachedOf(item) = {}
            \/ (CHOOSE c \in cachedOf(item) : TRUE).source_hash # item.sourceHash
        missingLocales(item) == SelectSeq(targetLocales, LAMBDA l : missing(item, l))
        gapOf(item) == [key |-> item.key, text |-> item.text,
                        sourceHash |-> item.sourceHash,
                        missingLocales |-> missingLocales(item)]
        all == [i \in 1..Len(content) |-> gapOf(content[i])]
    IN SelectSeq(all, LAMBDA g : Len(g.missingLocales) > 0)

\* gaps.filter(g => g.missingLocales.includes(locale))
ItemsForLocale(gaps, l) ==
    SelectSeq(gaps, LAMBDA g : l \in Elements(g.missingLocales))

\* itemsForLocale.slice(i, i + batchSize)
BatchAt(gaps, l, i, batchSize) ==
    LET its == ItemsForLocale(gaps, l)
    IN SubSeq(its, i + 1, IF i + batchSize < Len(its) THEN i + batchSize ELSE Len(its))

\* The batch the run is working on.
CurrentBatch(j) == BatchAt(j.gaps, j.locales[j.li], j.i, j.batchSize)

\* The locale loop of runTranslation from locale number li on: translateBatch
\* returns 0 for a locale with no items; for the first locale with items
\* the first batch is sent to the provider; after the last locale the run
\* is complete.
RECURSIVE EnterLocale(_, _)
EnterLocale(j, li) ==
    IF li > Len(j.locales)
    THEN [j EXCEPT !.pc = "done", !.last = "done", !.li = li, !.i = 0]
    ELSE IF Len(ItemsForLocale(j.gaps, j.locales[li])) = 0
    THEN EnterLocale(j, li + 1)
    ELSE [j EXCEPT !.pc = "translateBatch", !.last = "translateBatch", !.li = li,
                   !.i = 0, !.n.translateBatch = @ + 1]

\* What a run that has ended leaves for the next one to be compared with:
\* whether it completed without an error and wrote what it found (it was no
\* dry run), its target locales and the content it discovered.
PrevOf(j) ==
    IF j.pc = "done" /\ ~j.options.dryRun
    THEN [ok |-> TRUE, locales |-> Elements(TargetLocalesOf(j.options)),
          content |-> j.content]
    ELSE NoPrev

\* runTranslation is called, and discoverContent calls
\* getAllTranslatableContent whether or not the adapter has it.
RunTranslation_NoCapabilityTest(options, discovery) ==
    /\ job.pc \in {"idle", "done", "failed"}
    /\ job.runs < MaxRuns
    /\ job' = [NoJob EXCEPT !.pc = "discover", !.last = "discover",
                            !.runs = job.runs + 1, !.options = options,
                            !.discovery = discovery, !.prev = PrevOf(job)]
    /\ UNCHANGED <<viewVars, store, fp, source, db>>

\* runTranslation is called with an adapter that has
\* getAllTranslatableContent (discovery) or lacks it: discoverContent throws
\* for the adapter without it, and calls it otherwise.
RunTranslation(options, discovery) ==
    /\ job.pc \in {"idle", "done", "failed"}
    /\ job.runs < MaxRuns
    /\ job' = IF discovery
              THEN [NoJob EXCEPT !.pc = "discover", !.last = "discover",
                                 !.runs = job.runs + 1, !.options = options,
                                 !.prev = PrevOf(job)]
              ELSE [NoJob EXCEPT !.pc = "failed", !.last = "noDiscovery",
                                 !.runs = job.runs + 1, !.options = options,
                                 !.discovery = FALSE, !.prev = PrevOf(job)]
    /\ UNCHANGED <<viewVars, store, fp, source, db>>

\* The text of an item is edited in the content tables, between two runs.
EditSource(k, t) ==
    /\ job.pc \in {"idle", "done", "failed"}
    /\ k \in DOMAIN source
    /\ source[k] # t
    /\ source' = [source EXCEPT ![k] = t]
    /\ UNCHANGED <<viewVars, store, fp, job, db>>

\* The run stops with the error of a call that threw.
RunFails(kind) ==
    /\ job' = [job EXCEPT !.pc = "failed", !.last = kind]
    /\ UNCHANGED <<viewVars, store, fp, source, db>>

\* discoverContent returned: with no content the run ends, otherwise
\* findTranslationGaps reads the store for targetLocales[0].
DiscoverReturns ==
    /\ job.pc = "discover"
    /\ LET content == DiscoverContent(source) IN
       job' = IF Len(content) = 0
              THEN [job EXCEPT !.pc = "done", !.last = "done"]
              ELSE [job EXCEPT !.pc = "findGaps", !.last = "getCached",
                               !.content = content, !.n.getCached = @ + 1]
    /\ UNCHANGED <<viewVars, store, fp, source, db>>

\* getAllTranslatableContent threw.
DiscoverFails ==
    /\ job.pc = "discover"
    /\ RunFails("discoverFailed")

\* The dry run branch of runTranslation: the count reported for each locale.
DryRunReport(gaps, locales) ==
    [l \in Elements(locales) |-> Len(ItemsForLocale(gaps, l))]

\* findTranslationGaps without the dry run branch after it.
FindGapsReturns_NoDryRun ==
    /\ job.pc = "findGaps"
    /\ LET targetLocales == TargetLocalesOf(job.options)
           cachedTranslations ==
               GetCachedTranslations(store, TranslationItems(job.content), targetLocales[1])
           gaps == FindTranslationGaps(job.content, cachedTranslations, targetLocales)
           j == [job EXCEPT !.gaps = gaps, !.locales = targetLocales]
       IN job' = IF Len(gaps) = 0
                 THEN [j EXCEPT !.pc = "done", !.last = "noGaps"]
                 ELSE EnterLocale(j, 1)
    /\ UNCHANGED <<viewVars, store, fp, source, db>>

\* getCachedTranslations returned to findTranslationGaps: the gaps are
\* computed; with no gap the run ends, a dry run reports its counts and ends,
\* otherwise the locale loop starts.
FindGapsReturns ==
    /\ job.pc = "findGaps"
    /\ LET targetLocales == TargetLocalesOf(job.options)
           cachedTranslations ==
               GetCachedTranslations(store, TranslationItems(job.content), targetLocales[1])
           gaps == FindTranslationGaps(job.content, cachedTranslations, targetLocales)
           j == [job EXCEPT !.gaps = gaps, !.locales = targetLocales]
       IN job' = IF Len(gaps) = 0
                 THEN [j EXCEPT !.pc = "done", !.last = "noGaps"]
                 ELSE IF job.options.dryRun
                 THEN [j EXCEPT !.pc = "done", !.last = "dryRun",
                                !.report = DryRunReport(gaps, targetLocales)]
                 ELSE EnterLocale(j, 1)
    /\ UNCHANGED <<viewVars, store, fp, source, db>>

\* getCachedTranslations threw.
FindGapsFails ==
    /\ job.pc = "findGaps"
    /\ RunFails("getCachedFailed")

\* The responses of the provider to a batch: the translations in order, or
\* one string too few.
BatchResponseKinds == {"ok", "short"}

BatchResponse(batch, l, kind) ==
    LET good == [i \in 1..Len(batch) |-> Tr(batch[i].text, l)]
    IN IF kind = "ok" THEN good ELSE SubSeq(good, 1, Len(batch) - 1)

\* llm.translateBatch returned: the rows are built and saveTranslations is
\* called.
BatchTranslated(kind) ==
    /\ job.pc = "translateBatch"
    /\ job' = [job EXCEPT !.pc = "save", !.last = "save", !.n.save = @ + 1,
                          !.translations =
                              BatchResponse(CurrentBatch(job), job.locales[job.li], kind)]
    /\ UNCHANGED <<viewVars, store, fp, source, db>>

\* A failed batch that is logged and skipped: the loop goes on with the
\* next batch.
BatchFails_Skipped(kind) ==
    /\ LET j == [job EXCEPT !.failures = @ + 1, !.translations = <<>>]
           i == job.i + job.batchSize
       IN job' = IF i < Len(ItemsForLocale(job.gaps, job.locales[job.li]))
                 THEN [j EXCEPT !.pc = "translateBatch", !.last = kind, !.i = i,
                                !.n.translateBatch = @ + 1]
                 ELSE EnterLocale(j, job.li + 1)
    /\ UNCHANGED <<viewVars, store, fp, source, db>>

\* A failed batch caught in the locale loop of runTranslation: the rest of
\* the locale is given up and the loop goes on with the next locale.
BatchFails_NextLocale(kind) ==
    /\ job' = EnterLocale([job EXCEPT !.failures = @ + 1, !.last = kind,
                                      !.translations = <<>>], job.li + 1)
    /\ UNCHANGED <<viewVars, store, fp, source, db>>

\* The catch block of translateBatch: the error is logged and thrown again,
\* and runTranslation stops with it.
BatchFails(kind) ==
    /\ job' = [job EXCEPT !.pc = "failed", !.last = kind, !.failures = @ + 1]
    /\ UNCHANGED <<viewVars, store, fp, source, db>>

\* llm.translateBatch threw.
BatchTranslateFails ==
    /\ job.pc = "translateBatch"
    /\ BatchFails("translateBatchFailed")

\* const translationsToSave = batch.map(...)
BatchRows(j) ==
    LET batch == CurrentBatch(j)
    IN {Row(batch[idx].key, j.locales[j.li], batch[idx].text,
            At(j.translations, idx), batch[idx].sourceHash) : idx \in 1..Len(batch)}

\* saveTranslations returned, in a loop that steps by one item (i++) and not
\* by the batch size.
BatchSaved_StepOne ==
    /\ job.pc = "save"
    /\ store' = SaveTranslations(store, BatchRows(job))
    /\ LET j == [job EXCEPT !.saved = @ \cup BatchRows(job),
                            !.totalTranslated = @ + Len(job.translations),
                            !.translations = <<>>]
           i == job.i + 1
       IN job' = IF i < Len(ItemsForLocale(job.gaps, job.locales[job.li]))
                 THEN [j EXCEPT !.pc = "translateBatch", !.last = "translateBatch",
                                !.i = i, !.n.translateBatch = @ + 1]
                 ELSE EnterLocale(j, job.li + 1)
    /\ UNCHANGED <<viewVars, fp, source, db>>

\* saveTranslations returned: the total grows by translations.length and the
\* loop goes on with the next batch, the next locale, or ends.
BatchSaved ==
    /\ job.pc = "save"
    /\ store' = SaveTranslations(store, BatchRows(job))
    /\ LET j == [job EXCEPT !.saved = @ \cup BatchRows(job),
                            !.totalTranslated = @ + Len(job.translations),
                            !.translations = <<>>]
           i == job.i + job.batchSize
       IN job' = IF i < Len(ItemsForLocale(job.gaps, job.locales[job.li]))
                 THEN [j EXCEPT !.pc = "translateBatch", !.last = "translateBatch",
                                !.i = i, !.n.translateBatch = @ + 1]
                 ELSE EnterLocale(j, job.li + 1)
    /\ UNCHANGED <<viewVars, fp, source, db>>

\* saveTranslations threw.
BatchSaveFails ==
    /\ job.pc = "save"
    /\ BatchFails("saveFailed")

----------------------------------------------------------------------------
(* The Supabase example adapter: createSupabaseAdapter over content_translations *)

\* The statements the database executes in one behaviour; the clock NOW()
\* reads advances by one with each.
MaxClock == 3

\* The longest array a caller hands to saveTranslations.
MaxSaveLen == 2

\* PRIMARY KEY (content_type, content_id, locale).
PrimaryKey(r) == <<r.key, r.locale>>

\* The records the callers save: a coordinator session (full SHA-256 hash)
\* and a batch run (hash cut to 16) both write item k1 at locale kk.
SavedRecords ==
    {Row("k1", "kk", "a", Tr("a", "kk"), SourceHash("a")),
     Row("k1", "kk", "a", Tr("a", "kk"), CliSourceHash("a")),
     Row("k1", "de", "a", Tr("a", "de"), CliSourceHash("a")),
     Row("k2", "kk", "a", Tr("a", "kk"), SourceHash("a"))}

\* The arrays handed to saveTranslations.
SaveArrays == UNION {[1..n -> SavedRecords] : n \in 1..MaxSaveLen}

\* The item lists handed to getCachedTranslations.
QueriedItems == {{}, {"k1"}, {"k1", "k2"}}

\* A row of the table: the payload columns and the two timestamps.
DbRow(t, created, updated) ==
    [key |-> t.key, locale |-> t.locale, original_text |-> t.original_text,
     translated_text |-> t.translated_text, source_hash |-> t.source_hash,
     created_at |-> created, updated_at |-> updated]

\* The payload columns of a table row.
Payload(r) ==
    Row(r.key, r.locale, r.original_text, r.translated_text, r.source_hash)

\* Array.from(new Map(translations.map(t => [key, t])).values()) without the
\* Map: the array as it is handed in.
UniqueTranslations_NoDedup(translations) == translations

\* Array.from(new Map(translations.map(t => [key, t])).values()): one entry
\* per primary key, in the order the keys first appear, holding the last
\* record given for the key.
UniqueTranslations(translations) ==
    LET n == Len(translations)
        pk(i) == PrimaryKey(translations[i])
        First(i) == \A j \in 1..(i - 1) : pk(j) # pk(i)
        LastOf(i) == CHOOSE j \in i..n :
                        /\ pk(j) = pk(i)
                        /\ \A m \in (j + 1)..n : pk(m) # pk(i)
        F[i \in 0..n] ==
            IF i = 0 THEN <<>>
            ELSE IF First(i) THEN Append(F[i - 1], translations[LastOf(i)])
            ELSE F[i - 1]
    IN F[n]

\* .upsert(rows, { onConflict: 'content_type,content_id,locale' }) as one
\* statement executed at time t: a row whose key is present has its payload
\* columns replaced, created_at and updated_at are written by their column
\* defaults when a row is inserted and by nothing afterwards; a statement
\* naming one key twice is rejected and changes nothing.
Upsert(table, rows, t) ==
    LET written == {PrimaryKey(rows[i]) : i \in 1..Len(rows)}
        twice == \E i, j \in 1..Len(rows) :
                    i # j /\ PrimaryKey(rows[i]) = PrimaryKey(rows[j])
        Old(pk) == {r \in table : PrimaryKey(r) = pk}
        NewRow(n) ==
            IF Old(PrimaryKey(n)) = {} THEN DbRow(n, t, t)
            ELSE LET o == CHOOSE r \in Old(PrimaryKey(n)) : TRUE
                 IN DbRow(n, o.created_at, o.updated_at)
    IN IF twice
       THEN [error |-> TRUE, table |-> table]
       ELSE [error |-> FALSE,
             table |-> {r \in table : PrimaryKey(r) \notin written}
                       \cup {NewRow(rows[i]) : i \in 1..Len(rows)}]

\* .select('content_type, content_id, translated_text, source_hash'): the
\* columns a returned row carries.
SelectedColumns == {"key", "translated_text", "source_hash"}

\* The rows the query returns for the given items: the selected columns of
\* every row of these items, whatever its locale.
Select(table, its) ==
    {[c \in SelectedColumns |-> r[c]] : r \in {x \in table : x.key \in its}}

\* row.locale of a returned row: undefined when the column was not selected.
LocaleOf(row) == IF "locale" \in DOMAIN row THEN row.locale ELSE "undefined"

\* (data || []).filter((row) => row.locale === targetLocale)
FilterByLocale(data, targetLocale) == {row \in data : LocaleOf(row) = targetLocale}

\* No call has been made to the adapter.
NoCall ==
    [op |-> "none", failed |-> FALSE, items |-> {}, locale |-> DefaultLocale,
     translations |-> <<>>, outcome |-> "none", result |-> {}]

NoDb == [table |-> {}, now |-> 0, last |-> NoCall]

\* getCachedTranslations(items, targetLocale) when the query succeeds.
AdapterGetReturns(its, targetLocale) ==
    /\ db' = [db EXCEPT !.last =
                 [NoCall EXCEPT !.op = "getCachedTranslations",
                                !.items = its, !.locale = targetLocale,
                                !.outcome = "returned",
                                !.result = IF its = {} THEN {}
                                           ELSE FilterByLocale(Select(db.table, its),
                                                               targetLocale)]]
    /\ UNCHANGED <<viewVars, store, fp, source, job>>

\* getCachedTranslations(items, targetLocale) when the query comes back with
\* an error: it is logged and an empty array returned.
AdapterGetFails(its, targetLocale) ==
    /\ its # {}
    /\ db' = [db EXCEPT !.last =
                 [NoCall EXCEPT !.op = "getCachedTranslations", !.failed = TRUE,
                                !.items = its, !.locale = targetLocale,
                                !.outcome = "returned", !.result = {}]]
    /\ UNCHANGED <<viewVars, store, fp, source, job>>

\* saveTranslations(translations) when the database executes the statement.
AdapterSave(translations) ==
    /\ db.now < MaxClock
    /\ LET res == Upsert(db.table, UniqueTranslations(translations), db.now + 1)
       IN db' = [table |-> res.table, now |-> db.now + 1,
                 last |-> [NoCall EXCEPT !.op = "saveTranslations",
                                         !.translations = translations,
                                         !.outcome = IF res.error THEN "threw"
                                                     ELSE "returned"]]
    /\ UNCHANGED <<viewVars, store, fp, source, job>>

\* saveTranslations(translations) when the statement does not reach the
\* database: the error is logged and thrown.
AdapterSaveFails(translations) ==
    /\ db.now < MaxClock
    /\ db' = [db EXCEPT !.now = db.now + 1,
                        !.last = [NoCall EXCEPT !.op = "saveTranslations",
                                                !.failed = TRUE,
                                                !.translations = translations,
                                                !.outcome = "threw"]]
    /\ UNCHANGED <<viewVars, store, fp, source, job>>

----------------------------------------------------------------------------
(* The coordinator as a state machine *)

\* What the shared table holds when the view is mounted: nothing, or the row
\* another session saved for item k2 at locale kk.
InitialStores ==
    {{}, {Row("k2", "kk", "a", Tr("a", "kk"), SourceHash("a"))}}

\* The view is mounted at the default locale: the effect has run its
\* short-circuit branch.
Init ==
    /\ locale = DefaultLocale
    /\ items = FullView
    /\ cache = EmptyCache
    /\ isTranslating = FALSE
    /\ cycles = {}
    /\ started = 0
    /\ renders = 0
    /\ store \in InitialStores
    /\ metadata = [l \in Locales |-> NoMeta]
    /\ ev = NoEvent
    /\ fp = NoFingerprint
    /\ source = FullView
    /\ job = NoJob
    /\ db = NoDb

Next ==
    \/ \E l \in Locales : LocaleChange(l)
    \/ \E its \in ItemSets : ItemsChange(its)
    \/ \E id \in CycleIds : LoadReturns(id)
    \/ \E id \in CycleIds : LoadFails(id)
    \/ \E id \in CycleIds : ReadReturns(id)
    \/ \E id \in CycleIds : ReadFails(id)
    \/ \E id \in CycleIds : \E kind \in ResponseKinds : TranslateReturns(id, kind)
    \/ \E id \in CycleIds : TranslateFails(id)
    \/ \E id \in CycleIds : SaveReturns(id)
    \/ \E id \in CycleIds : SaveFails(id)

Spec == Init /\ [][Next]_vars

\* The continuation of cycle id: the promise it is suspended on settles.
Settle(id) ==
    \/ LoadReturns(id)
    \/ LoadFails(id)
    \/ ReadReturns(id)
    \/ ReadFails(id)
    \/ \E kind \in ResponseKinds : TranslateReturns(id, kind)
    \/ TranslateFails(id)
    \/ SaveReturns(id)
    \/ SaveFails(id)

\* The view is mounted over an empty table.
FairInit == Init /\ store = {}

\* While a cycle awaits a promise, some awaited promise settles: the adapters
\* answer or throw, and the event loop runs the continuation. Nothing is
\* assumed about which of several suspended cycles is resumed first.
FairSpec == FairInit /\ [][Next]_vars /\ WF_vars(\E id \in CycleIds : Settle(id))

\* No view is mounted.
NoViewMounted ==
    /\ locale = DefaultLocale
    /\ items = FullView
    /\ cache = EmptyCache
    /\ isTranslating = FALSE
    /\ cycles = {}
    /\ started = 0
    /\ renders = 0
    /\ metadata = [l \in Locales |-> NoMeta]
    /\ ev = NoEvent

----------------------------------------------------------------------------
(* The coordinator mounted over metadata an earlier page load left *)

\* localStorage outlives the page: the entry translation_metadata_<view>_kk
\* an earlier page load wrote after its cycle for the full view completed.
PersistedMetadata ==
    [l \in Locales |-> IF l = "kk" THEN MetadataOf(FullView) ELSE NoMeta]

\* What the table the adapter reads holds at this page load: the rows of that
\* earlier cycle, only the row of item k2, or nothing (the table is not the
\* one the earlier page load wrote to, or was created anew since).
RemountStores ==
    {{Row(k, "kk", "a", Tr("a", "kk"), SourceHash("a")) : k \in Keys},
     {Row("k2", "kk", "a", Tr("a", "kk"), SourceHash("a"))},
     {}}

RemountInit ==
    /\ locale = DefaultLocale
    /\ items = FullView
    /\ cache = EmptyCache
    /\ isTranslating = FALSE
    /\ cycles = {}
    /\ started = 0
    /\ renders = 0
    /\ store \in RemountStores
    /\ metadata = PersistedMetadata
    /\ ev = NoEvent
    /\ fp = NoFingerprint
    /\ source = FullView
    /\ job = NoJob
    /\ db = NoDb

RemountSpec == RemountInit /\ [][Next]_vars

----------------------------------------------------------------------------
(* The fingerprint of a view and of the view after one change *)

FpInit ==
    /\ NoViewMounted
    /\ store = {}
    /\ source = FullView
    /\ job = NoJob
    /\ db = NoDb
    /\ \E view \in FpViews : fp = [op |-> "view", view |-> view, other |-> view]

FpNext ==
    \/ \E n \in 1..MaxItems : \E p \in Orders(n) : Reorder(p)
    \/ \E i \in 1..MaxItems : \E text \in TextStrings : ChangeText(i, text)
    \/ \E item \in FpItems : AddItem(item)
    \/ \E i \in 1..MaxItems : RemoveItem(i)

FpSpec == FpInit /\ [][FpNext]_vars

----------------------------------------------------------------------------
(* The batch command as a state machine *)

\* What the table holds before the first run: nothing, the rows an earlier
\* deployment saved for every item at every configured locale, or the rows
\* an earlier run with --locale kk saved.
RunInitialStores ==
    {{}, {Row(k, l, "a", Tr("a", l), CliSourceHash("a")) : k \in Keys, l \in TargetLocales},
     {Row(k, "kk", "a", Tr("a", "kk"), CliSourceHash("a")) : k \in Keys}}

RunInit ==
    /\ NoViewMounted
    /\ fp = NoFingerprint
    /\ store \in RunInitialStores
    /\ source = RunSource
    /\ job = NoJob
    /\ db = NoDb

RunNext ==
    \/ \E options \in RunOptions : \E discovery \in BOOLEAN :
          RunTranslation(options, discovery)
    \/ \E k \in Keys : \E t \in Texts : EditSource(k, t)
    \/ DiscoverReturns
    \/ DiscoverFails
    \/ FindGapsReturns
    \/ FindGapsFails
    \/ \E kind \in BatchResponseKinds : BatchTranslated(kind)
    \/ BatchTranslateFails
    \/ BatchSaved
    \/ BatchSaveFails

RunSpec == RunInit /\ [][RunNext]_vars

----------------------------------------------------------------------------
(* translateBatch of the batch command, for one locale and any batch size *)

\* The largest config.batchSize.
MaxBatch == 2

\* The items of a configuration with three translatable items.
BatchKeys == <<"k1", "k2", "k3">>

\* The gaps findTranslationGaps returned for a run with --locale kk: any of
\* the three items, in the order of discovery.
GapLists ==
    {SelectSeq([i \in 1..Len(BatchKeys) |->
                   [key |-> BatchKeys[i], text |-> "a",
                    sourceHash |-> CliSourceHash("a"), missingLocales |-> <<"kk">>]],
               LAMBDA g : g.key \in ks) : ks \in (SUBSET {"k1", "k2", "k3"}) \ {{}}}

\* runTranslation has found the gaps and its locale loop has made the first
\* llm.translateBatch call.
BatchInit ==
    /\ NoViewMounted
    /\ fp = NoFingerprint
    /\ store = {}
    /\ source = RunSource
    /\ db = NoDb
    /\ \E gaps \in GapLists : \E b \in 1..MaxBatch :
          job = [NoJob EXCEPT !.pc = "translateBatch", !.last = "translateBatch",
                              !.runs = 1, !.options.locale = "kk",
                              !.batchSize = b, !.gaps = gaps,
                              !.content = [i \in 1..Len(BatchKeys) |->
                                              [key |-> BatchKeys[i], text |-> "a",
                                               sourceHash |-> CliSourceHash("a")]],
                              !.locales = <<"kk">>, !.li = 1, !.i = 0,
                              !.n = [getCached |-> 1, translateBatch |-> 1, save |-> 0]]

BatchNext ==
    \/ \E kind \in BatchResponseKinds : BatchTranslated(kind)
    \/ BatchTranslateFails
    \/ BatchSaved
    \/ BatchSaveFails

BatchSpec == BatchInit /\ [][BatchNext]_vars

----------------------------------------------------------------------------
(* The batch command over a table the coordinator has written *)

\* The rows coordinator sessions saved for every item at every locale:
\* their source_hash is the full digest.
CoordinatorRows ==
    {Row(k, l, "a", Tr("a", l), SourceHash("a")) : k \in Keys, l \in TargetLocales}

SharedTableInit ==
    /\ NoViewMounted
    /\ fp = NoFingerprint
    /\ store = CoordinatorRows
    /\ source = RunSource
    /\ job = NoJob
    /\ db = NoDb

SharedTableSpec == SharedTableInit /\ [][RunNext]_vars

----------------------------------------------------------------------------
(* The Supabase example adapter as a state machine *)

StoreInit ==
    /\ NoViewMounted
    /\ fp = NoFingerprint
    /\ store = {}
    /\ source = FullView
    /\ job = NoJob
    /\ db = NoDb

StoreNext ==
    \/ \E its \in QueriedItems : \E l \in TargetLocales : AdapterGetReturns(its, l)
    \/ \E its \in QueriedItems : \E l \in TargetLocales : AdapterGetFails(its, l)
    \/ \E translations \in SaveArrays : AdapterSave(translations)
    \/ \E translations \in SaveArrays : AdapterSaveFails(translations)

StoreSpec == StoreInit /\ [][StoreNext]_vars

----------------------------------------------------------------------------
(* Properties *)

\* The fallback a component passes for item k: the item's source text.
Fallback(k) == Source(IF k \in DOMAIN items THEN items[k] ELSE "a")

\* The row the table holds for item k at locale l, if any.
RowsAt(k, l) == {r \in store : r.key = k /\ r.locale = l}

\* v is a translation into one of the target locales.
IsTranslation(v) == v.loc \in TargetLocales

\* The last step was a cycle putting its result in the cache although the
\* active locale was no longer that cycle's locale.
SupersededCommit == ev.kind \in {"commit", "loaded"} /\ ev.loc # locale

\* Every row holds a translated text that is a string.
RowsDefined == \A r \in store : r.translated_text # Undefined

\* C1: while a non-default locale is active, getTranslation returns no
\* translation that was produced for another locale (the state right after
\* a superseded cycle's commit, which C3 is about, left aside).
C1_NoStaleLocaleShown ==
    (locale \in TargetLocales /\ ~SupersededCommit) =>
        \A k \in Keys :
            IsTranslation(GetTranslation(k, Fallback(k))) =>
                GetTranslation(k, Fallback(k)).loc = locale

\* C2: when a cycle run on returning to a locale that was synced for the same
\* items ends (the read of the metadata fast path returned), every item of the
\* view is served the translated text of its row at that locale (the rows
\* all holding a string as translated text).
C2_ReturnServesStoredTranslations ==
    (/\ ev.kind = "loaded" /\ ev.loc = locale
     /\ MetadataMatches(metadata[locale], items) /\ RowsDefined) =>
        \A k \in DOMAIN items :
            \E r \in RowsAt(k, locale) : GetTranslation(k, Fallback(k)) = r.translated_text

\* C3: a cycle's result is put in the cache only if the locale the cycle was
\* started for is still the active locale when it completes.
C3_SupersededResultDiscarded ==
    ev.kind \in {"commit", "loaded"} => ev.loc = locale

\* C4: no two cycles of one locale have a translateBatch call in flight for
\* the same item at the same time.
C4_OneTranslateBatchInFlight ==
    \A c, d \in cycles :
        (c # d /\ c.locale = d.locale /\ c.pc = "translateBatch" /\ d.pc = "translateBatch")
            => {c.uncached[i] : i \in 1..Len(c.uncached)}
                   \cap {d.uncached[i] : i \in 1..Len(d.uncached)} = {}

\* C5: a cycle calls translateBatch at most once, and with exactly the items
\* of the view for which getCached returned no row (the rows all holding a
\* string as translated text).
C5_TranslateExactlyTheMisses ==
    \A c \in cycles :
        /\ c.n.translateBatch <= 1
        /\ (c.pc = "translateBatch" /\ RowsDefined) =>
               {c.uncached[i] : i \in 1..Len(c.uncached)} = DOMAIN c.items \ c.found

\* C6: when a cycle for the view's current items commits, no row of the view
\* at the active locale carries a sourceHash other than the hash of the
\* item's current text: a stale row was replaced, not served.
C6_StaleRowReplaced ==
    (ev.kind = "commit" /\ ev.loc = locale /\ MetadataMatches(metadata[locale], items)) =>
        \A k \in DOMAIN items : \A r \in RowsAt(k, locale) :
            r.source_hash = SourceHash(items[k])

\* C7: while the default locale is active, getTranslation returns the
\* fallback for every key and every fallback, whatever the cache holds.
C7_DefaultLocaleReturnsFallback ==
    locale = DefaultLocale =>
        \A k \in Keys : \A t \in Texts : GetTranslation(k, Source(t)) = Source(t)

\* C7 witness: the default locale is active and the cache holds a
\* translation, committed by a cycle that was in flight at the switch.
C7_Witness ==
    /\ locale = DefaultLocale
    /\ ev.kind = "commit"
    /\ \E k \in Keys : IsTranslation(Lookup(cache, k))

\* C8 as stated: no getCached, translateBatch or save call is issued while
\* the default locale is active.
C8_NoCallWhileDefault ==
    ev.issued # "none" => locale # DefaultLocale

\* C8 as amended: no cycle is started for the default locale or for an empty
\* view, and a call issued while the default locale is active is issued by a
\* cycle that was started for a non-default locale.
C8_NoCycleStartedAtDefault ==
    /\ \A c \in cycles : c.locale \in TargetLocales /\ ItemCount(c.items) > 0
    /\ (ev.issued # "none" /\ locale = DefaultLocale) => ev.loc \in TargetLocales

\* C8 witness: a cycle started before the switch issues translateBatch while
\* the default locale is active.
C8_Witness ==
    locale = DefaultLocale /\ ev.issued = "translateBatch"

\* C9: a translateBatch response of the wrong length is never turned into
\* rows to save.
C9_MismatchNeverSaved ==
    \A c \in cycles : c.pc = "save" => Len(c.translated) = Len(c.uncached)

\* C10: after translateBatch or save failed in a cycle of the active locale,
\* every item for which that cycle's getCached returned a row with a
\* translation is shown that translation.
C10_HitsShownAfterFailure ==
    (ev.kind = "failed" /\ ev.loc = locale) =>
        \A k \in ev.hits : \A r \in RowsAt(k, locale) :
            Truthy(r.translated_text) =>
                GetTranslation(k, Fallback(k)) = r.translated_text

\* C11: the in-flight flag is false whenever no cycle is in flight, it is
\* false right after the catch and finally blocks of a failed cycle ran, a
\* flag that is true becomes false, and with the flag false isItemTranslating
\* is false for every item.
C11_FlagClearedAfterFailure ==
    /\ [](cycles = {} => ~isTranslating)
    /\ [](ev.kind = "failed" => ~isTranslating)
    /\ [](~isTranslating => \A k \in Keys : ~IsItemTranslating(k))
    /\ (isTranslating ~> ~isTranslating)

\* C11 witness: a cycle at the active non-default locale failed after it had
\* set the flag, no cycle is left in flight and the flag is false.
C11_Witness ==
    /\ ev.kind = "failed" /\ ev.loc = locale
    /\ cycles = {}
    /\ ~isTranslating

Uncached(c) == {c.uncached[i] : i \in 1..Len(c.uncached)}

\* C13: isItemTranslating is true for a key only while the active locale is
\* not the default and a translateBatch call that includes that item is in
\* flight.
C13_TranslatingOnlyItemsInBatch ==
    \A k \in Keys :
        IsItemTranslating(k) =>
            /\ locale # DefaultLocale
            /\ \E c \in cycles : c.pc = "translateBatch" /\ k \in Uncached(c)

\* C14: at a non-default locale getTranslation returns the cache entry of
\* the key whenever the cache holds a string for it, the empty string
\* included, and the fallback when the cache holds no entry for it.
C14_CacheEntryReturnedVerbatim ==
    locale # DefaultLocale =>
        \A k \in Keys : \A t \in Texts :
            /\ (k \in DOMAIN cache /\ cache[k] # Undefined) =>
                   GetTranslation(k, Source(t)) = cache[k]
            /\ k \notin DOMAIN cache => GetTranslation(k, Source(t)) = Source(t)

\* C15: the same items passed in another order give the same contentString
\* and the same fingerprint.
C15_FingerprintIgnoresOrder ==
    fp.op = "reorder" =>
        /\ fp.otherString = fp.string
        /\ fp.otherHash = fp.hash

\* C15 witness: two different items were passed in the other order.
C15_Witness ==
    /\ fp.op = "reorder"
    /\ fp.other # fp.view
    /\ fp.otherHash = fp.hash

\* C16: a view and the view with one item's text changed, one item added
\* or one item removed never have the same contentString.
C16_EditChangesContentString ==
    fp.op \in {"text", "add", "remove"} => fp.otherString # fp.string

\* The locales findTranslationGaps listed as missing for the item of key k.
MissingLocales(k) ==
    UNION {Elements(g.missingLocales) : g \in {h \in Elements(job.gaps) : h.key = k}}

\* The store has no record for (k, l), or that record's sourceHash is not h.
IsGap(k, l, h) == \A r \in RowsAt(k, l) : r.source_hash # h

\* C17: right after findTranslationGaps computed the gaps, a locale L among
\* the target locales is listed as missing for an item exactly when the
\* store has no record of the item at L or that record's sourceHash differs
\* from the item's hash.
C17_GapsDecidedPerLocale ==
    job.last \in {"noGaps", "dryRun", "translateBatch"} /\ job.n.save = 0 =>
        \A c \in Elements(job.content) : \A l \in Elements(TargetLocalesOf(job.options)) :
            l \in MissingLocales(c.key) <=> IsGap(c.key, l, c.sourceHash)

\* C18: when a run that writes completes, the texts being the ones it
\* discovered, no record of an item at one of the run's target locales
\* carries another sourceHash than the hash of the item's current text: the
\* records with the old text's hash were translated again and replaced.
C18_ChangedTextRetranslated ==
    (/\ job.pc = "done" /\ ~job.options.dryRun
     /\ job.content = DiscoverContent(source)) =>
        \A c \in Elements(job.content) : \A l \in Elements(TargetLocalesOf(job.options)) :
            \A r \in RowsAt(c.key, l) : r.source_hash = CliSourceHash(source[c.key])

\* C19: once a batch's translateBatch or save call failed the run has
\* stopped with the error, no call was made after the failed one, and every
\* record the earlier batches saved is in the store as it was saved.
C19_BatchFailureStopsRun ==
    /\ job.failures > 0 =>
           /\ job.pc = "failed"
           /\ job.failures = 1
           /\ job.last \in {"translateBatchFailed", "saveFailed"}
    /\ job.saved \subseteq store

\* C19 witness: the second batch of a locale failed after the first batch's
\* record was saved.
C19_Witness ==
    /\ job.pc = "failed"
    /\ job.failures = 1
    /\ job.i > 0
    /\ job.saved # {}
    /\ job.saved \subseteq store

\* C20: a dry run makes no translateBatch and no save call and does not
\* change the store, and the count it reports for a target locale is the
\* number of gaps that list the locale as missing.
C20_DryRunWritesNothing ==
    /\ [](job.options.dryRun =>
             /\ job.n.translateBatch = 0 /\ job.n.save = 0
             /\ job.saved = {})
    /\ [](job.last = "dryRun" =>
             /\ DOMAIN job.report = Elements(TargetLocalesOf(job.options))
             /\ \A l \in DOMAIN job.report :
                    job.report[l] = Cardinality({k \in Keys : l \in MissingLocales(k)}))
    /\ [][job'.options.dryRun => store' = store]_vars

\* C20 witness: a dry run reported gaps for a store that holds records.
C20_Witness ==
    /\ job.last = "dryRun"
    /\ job.options.dryRun
    /\ store # {}
    /\ \E l \in DOMAIN job.report : job.report[l] > 0

\* The primary keys an array handed to saveTranslations names.
KeysOf(translations) == {PrimaryKey(translations[i]) : i \in 1..Len(translations)}

\* The last record an array gives for primary key pk.
LastFor(translations, pk) ==
    translations[CHOOSE i \in 1..Len(translations) :
                    /\ PrimaryKey(translations[i]) = pk
                    /\ \A j \in (i + 1)..Len(translations) :
                          PrimaryKey(translations[j]) # pk]

\* C21: whatever saves the coordinator sessions and the batch run make, in
\* whatever order, the table holds at most one row per (contentType,
\* contentId, locale); a save the database executes returns without a
\* duplicate-key failure and leaves, for every key it names, the last record
\* given for that key; and a save neither removes nor alters the row of a
\* key it does not name.
C21_OneRecordPerKey ==
    /\ [](\A r1, r2 \in db.table : PrimaryKey(r1) = PrimaryKey(r2) => r1 = r2)
    /\ []((db.last.op = "saveTranslations" /\ ~db.last.failed) =>
            /\ db.last.outcome = "returned"
            /\ \A pk \in KeysOf(db.last.translations) :
                  \E r \in db.table : Payload(r) = LastFor(db.last.translations, pk))
    /\ [][\A r \in db.table :
             (\/ db'.last.op # "saveTranslations"
              \/ PrimaryKey(r) \notin KeysOf(db'.last.translations)) => r \in db'.table]_vars

\* A batch run's record for (k1, kk) and another key's row are in the table,
\* and the last save named (k1, kk) twice, the coordinator's record last.
C21_Witness ==
    /\ db.last.op = "saveTranslations"
    /\ db.last.outcome = "returned"
    /\ db.last.translations =
          <<Row("k1", "kk", "a", Tr("a", "kk"), CliSourceHash("a")),
            Row("k1", "kk", "a", Tr("a", "kk"), SourceHash("a"))>>
    /\ \E r \in db.table : PrimaryKey(r) = <<"k1", "kk">> /\ r.created_at < db.now
    /\ \E r \in db.table : PrimaryKey(r) = <<"k2", "kk">>

\* C22: a save of records the table already holds with the same contents
\* leaves exactly one row per key with these contents, and the row's
\* updated_at is later than it was before the save.
C22_SecondSaveAdvancesUpdatedAt ==
    [][(/\ db'.last.op = "saveTranslations"
        /\ db'.last.outcome = "returned"
        /\ \A i \in 1..Len(db'.last.translations) :
              \E r \in db.table : Payload(r) = db'.last.translations[i])
       => \A pk \in KeysOf(db'.last.translations) :
             /\ Cardinality({r \in db'.table : PrimaryKey(r) = pk}) = 1
             /\ \A old \in db.table : \A new \in db'.table :
                   (PrimaryKey(old) = pk /\ PrimaryKey(new) = pk) =>
                      /\ Payload(new) = Payload(old)
                      /\ new.updated_at > old.updated_at]_vars

\* C23: a getCachedTranslations call whose query succeeds returns exactly
\* the rows of the given items at the given locale (their selected columns);
\* for an empty item list, the empty list.
C23_GetCachedReturnsStoredRecords ==
    (db.last.op = "getCachedTranslations" /\ ~db.last.failed) =>
        db.last.result =
            {[c \in SelectedColumns |-> r[c]] :
                r \in {x \in db.table : x.key \in db.last.items
                                        /\ x.locale = db.last.locale}}

\* C24: a getCachedTranslations or saveTranslations call whose database
\* request fails ends with an error thrown to the caller.
C24_FailureSurfacesAsError ==
    db.last.failed => db.last.outcome = "threw"

\* C25: a run given an adapter without getAllTranslatableContent has failed
\* with discoverContent's error, having made no getCachedTranslations,
\* translateBatch or saveTranslations call; it writes nothing to the table.
C25_NoDiscoveryFailsFirst ==
    /\ [](~job.discovery =>
            /\ job.pc = "failed"
            /\ job.last = "noDiscovery"
            /\ job.n = NoCalls
            /\ job.saved = {})
    /\ [][~job'.discovery => store' = store]_vars

\* A run was given an adapter without the capability, after a run that
\* completed, over a table that holds rows.
C25_Witness ==
    /\ ~job.discovery
    /\ job.last = "noDiscovery"
    /\ job.prev.ok
    /\ store # {}

\* The content type of item k is one config.excludeTypes names.
Excluded(k) == ContentTypeOf(k) \in ExcludeTypes

\* C26: no item of an excluded content type is among the gaps, in a batch
\* passed to translateBatch, or in a row the run saved.
C26_ExcludedTypesNeverTranslated ==
    /\ \A g \in Elements(job.gaps) : ~Excluded(g.key)
    /\ job.pc \in {"translateBatch", "save"} =>
          \A b \in Elements(CurrentBatch(job)) : ~Excluded(b.key)
    /\ \A r \in job.saved : ~Excluded(r.key)

\* A run over content tables holding an item of an excluded type completed
\* and saved rows, and the table has no row of that item.
C26_Witness ==
    /\ job.pc = "done"
    /\ job.saved # {}
    /\ \E k \in DOMAIN source : Excluded(k)
    /\ \A r \in store : ~Excluded(r.key)

\* C27: a run with --locale L passes only L to translateBatch and saves only
\* rows at L, and the table's rows at every other locale stay as they are.
C27_LocaleOptionRestrictsRun ==
    /\ [](job.options.locale # "none" =>
            /\ job.pc \in {"translateBatch", "save"} =>
                  job.locales[job.li] = job.options.locale
            /\ \A r \in job.saved : r.locale = job.options.locale)
    /\ [][job'.options.locale # "none" =>
             \A l \in TargetLocales \ {job'.options.locale} :
                {r \in store' : r.locale = l} = {r \in store : r.locale = l}]_vars

\* A run with --locale de completed and saved rows while the table holds
\* rows at kk.
C27_Witness ==
    /\ job.options.locale = "de"
    /\ job.pc = "done"
    /\ job.saved # {}
    /\ \E r \in store : r.locale = "kk"

\* C28: a run that follows a completed run (no dry run) whose target locales
\* include its own, and that discovered the same content, finds no gaps and
\* makes no translateBatch and no saveTranslations call.
C28_SecondRunFindsNoGaps ==
    (/\ job.prev.ok
     /\ job.prev.content = job.content
     /\ job.locales # <<>>
     /\ Elements(job.locales) \subseteq job.prev.locales)
    => /\ job.gaps = <<>>
       /\ job.n.translateBatch = 0
       /\ job.n.save = 0

\* C29: a completed run with --force (no dry run) has saved a row for every
\* discovered item at every target locale, whatever the table held.
C29_ForceRetranslates ==
    (/\ job.options.force
     /\ ~job.options.dryRun
     /\ job.pc = "done"
     /\ job.content # <<>>)
    => \A c \in Elements(job.content) :
          \A l \in Elements(TargetLocalesOf(job.options)) :
             \E r \in job.saved : r.key = c.key /\ r.locale = l

\* C30: with a non-default locale active, a cycle for it completed and no
\* cycle in flight, a render whose items differ from the last ones, in the
\* item set or in the text of an item, starts a new cycle (unless the new
\* view is empty).
C30_AnyChangeStartsCycle ==
    [][(/\ cycles = {}
        /\ locale # DefaultLocale
        /\ metadata[locale] # NoMeta
        /\ items' # items
        /\ ItemCount(items') > 0)
       => /\ started' = started + 1
          /\ cycles' # {}]_vars

\* C31: a cycle that ends on the metadata fast path, after its
\* getCachedTranslations call returned, leaves no item of its view without a
\* row in the table at its locale: an item the table has no row for is sent
\* to translateBatch and saved before the cycle ends.
C31_FastPathTranslatesMissing ==
    [][\A c \in cycles :
          (c.pc = "getCachedFast" /\ c \notin cycles' /\ ev'.kind = "loaded") =>
             \A k \in DOMAIN c.items :
                \E r \in store' : r.key = k /\ r.locale = c.locale]_vars

\* C32: after findTranslationGaps no item is listed as missing at a locale
\* where the table holds the row a coordinator session saved for the item's
\* current text, with the hash the coordinator computes for that text.
C32_CoordinatorHashAccepted ==
    job.locales # <<>> =>
       \A c \in Elements(job.content) : \A l \in Elements(job.locales) :
          (\E r \in store : /\ r.key = c.key /\ r.locale = l
                            /\ r.original_text = c.text
                            /\ r.source_hash = SourceHash(c.text))
          => ~\E g \in Elements(job.gaps) :
                 g.key = c.key /\ l \in Elements(g.missingLocales)

\* C33: a cycle whose read failed and was retried is not back at the read of
\* the metadata fast path, where the next failure is retried in the same
\* way: the retries of one cycle are bounded.
C33_ReadRetriesBounded ==
    \A c \in cycles : c.n.getCached > 1 => c.pc # "getCachedFast"

\* C34: within a cycle getCachedTranslations, translateBatch and
\* saveTranslations are each called at most once and in this order: while
\* a read is pending neither of the others has been called, translateBatch
\* is pending only after the read and before any save, and a save only after
\* translateBatch.
C34_CallsInOrderOncePerCycle ==
    \A c \in cycles :
        /\ c.n.getCached <= 1 /\ c.n.translateBatch <= 1 /\ c.n.save <= 1
        /\ c.pc \in {"getCachedFast", "getCachedSlow"} =>
              c.n.translateBatch = 0 /\ c.n.save = 0
        /\ c.pc = "translateBatch" =>
              c.n.getCached >= 1 /\ c.n.translateBatch = 1 /\ c.n.save = 0
        /\ c.pc = "save" =>
              c.n.getCached >= 1 /\ c.n.translateBatch = 1 /\ c.n.save = 1

\* The smaller of two numbers.
Min(a, b) == IF a < b THEN a ELSE b

\* C35: in a run for one locale with batch size b, the k-th translateBatch
\* call gets the k-th slice of at most b of the locale's gaps in input
\* order, it is made when exactly k - 1 saves have returned, and the run
\* completes when the slices have covered every gap: each gap is passed
\* exactly once.
C35_BatchesConsecutiveAndSequential ==
    LET its == ItemsForLocale(job.gaps, "kk")
        b == job.batchSize
        k == job.n.translateBatch
    IN /\ job.pc \in {"translateBatch", "save"} =>
             /\ CurrentBatch(job) = SubSeq(its, (k - 1) * b + 1, Min(k * b, Len(its)))
             /\ Len(CurrentBatch(job)) \in 1..b
             /\ job.n.save = IF job.pc = "save" THEN k ELSE k - 1
       /\ job.pc = "done" =>
             /\ (k - 1) * b < Len(its) /\ Len(its) <= k * b
             /\ job.n.save = k
             /\ {r.key : r \in job.saved} = {its[i].key : i \in 1..Len(its)}

\* A run with batch size 2 completed over three gaps: a batch of two items,
\* then a batch of one.
C35_Witness ==
    /\ job.pc = "done"
    /\ job.batchSize = 2
    /\ Len(job.gaps) = 3
    /\ job.n.translateBatch = 2
    /\ job.n.save = 2

\* The rows a cycle or the batch run is saving, or has saved to the table.
RowsBeingSaved ==
    UNION {TranslationsToSave(c) : c \in {d \in cycles : d.pc = "save"}}
        \cup (IF job.pc = "save" THEN BatchRows(job) ELSE {})
        \cup job.saved

\* C36: every row that is being saved or is in the table has the hash of
\* its original_text as source_hash and, when it holds a translation, the
\* translation of its original_text into its locale; the rows a cycle saves
\* carry the locale and the texts of the cycle's translateBatch call, whatever
\* the active locale is by then.
C36_SavedRecordConsistent ==
    /\ \A r \in store \cup RowsBeingSaved :
          /\ r.source_hash.of = r.original_text
          /\ Truthy(r.translated_text) => r.translated_text = Tr(r.original_text, r.locale)
    /\ \A c \in cycles : c.pc = "save" =>
          \A r \in TranslationsToSave(c) :
             /\ r.locale = c.locale
             /\ r.original_text = c.items[r.key]
    /\ job.pc = "save" =>
          \A r \in BatchRows(job) : r.locale = job.locales[job.li]

\* A cycle started for kk saved its rows while another locale was active.
C36_Witness ==
    /\ ev.kind = "commit"
    /\ ev.tried # {}
    /\ ev.loc = "kk"
    /\ locale = "de"
    /\ \E r \in store : r.locale = "kk" /\ r.key \in ev.tried

\* C37: the stored metadata changes only in the step that ends a cycle whose
\* calls all returned (its slow-path read with nothing left to translate, or
\* its save), and then the entry of the cycle's locale becomes the
\* fingerprint and the number of the cycle's items; the step that ends a
\* failed cycle leaves the metadata as it is.
C37_MetadataWrittenOnSuccessOnly ==
    /\ [][metadata' # metadata =>
             \E c \in cycles :
                /\ c \notin cycles'
                /\ ev'.kind = "commit"
                /\ c.pc \in {"getCachedSlow", "save"}
                /\ metadata' = [metadata EXCEPT ![c.locale] =
                                   [contentHash |-> ContentHash(c.items),
                                    itemCount |-> ItemCount(c.items)]]]_vars
    /\ [][ev'.kind \in {"failed", "loaded"} => metadata' = metadata]_vars

\* A cycle completed and wrote the metadata of its own items after the view
\* had been rendered with other items.
C37_Witness ==
    /\ ev.kind = "commit"
    /\ metadata[ev.loc] # NoMeta
    /\ ItemCount(items) > 0
    /\ ~MetadataMatches(metadata[ev.loc], items)

\* C38: when the only cycle in flight, started for the active locale and the
\* view's current items, completes without error, the cache holds an entry
\* for every item of the view and the entry is the translated_text of the
\* item's row at the active locale.
C38_CacheEqualsStoreAfterCycle ==
    [][\A c \in cycles :
          (/\ cycles = {c} /\ cycles' = {}
           /\ ev'.kind \in {"commit", "loaded"}
           /\ c.locale = locale' /\ c.items = items')
          => \A k \in DOMAIN items' :
                /\ k \in DOMAIN cache'
                /\ \E r \in store' : /\ r.key = k /\ r.locale = locale'
                                     /\ cache'[k] = r.translated_text]_vars

\* C39: while a cycle started for the active locale and the view's current
\* items is in flight, the view-level isTranslating flag is true.
C39_FlagTrueWhileCycleInFlight ==
    (\E c \in cycles : c.locale = locale /\ c.items = items) => isTranslating

\* C40: when a batch has failed for the locale the loop is at, the run has
\* stopped with the error; the rows it saved are rows of that locale and of
\* the locales before it and are in the table; and until another run is
\* started nothing more is called or written.
C40_FailureStopsLaterLocales ==
    /\ [](job.failures > 0 =>
            /\ job.pc = "failed"
            /\ \A r \in job.saved : \E x \in 1..job.li : r.locale = job.locales[x]
            /\ job.saved \subseteq store)
    /\ [][(job.pc = "failed" /\ job'.runs = job.runs) =>
             (job' = job /\ store' = store)]_vars

\* The second batch of the first of two locales failed after the first
\* batch's row was saved; the table holds no row of the second locale.
C40_Witness ==
    /\ job.pc = "failed"
    /\ job.failures = 1
    /\ Len(job.locales) = 2
    /\ job.li = 1
    /\ job.saved # {}
    /\ \A r \in store : r.locale = job.locales[1]

====
